---- MODULE Spec2Model ----
(***************************************************************************)
(* Coaster placement (rectangle variant, new_puzzle_costers.py).           *)
(*                                                                         *)
(* Lengths are integers counted in half pixels, so that the tolerance      *)
(* tol = 0.5 px is the integer 1.  Areas are counted in whole square       *)
(* pixels (cells of 2 x 2 half pixels), so overlap_threshold = 1.0 is 1.   *)
(* The coaster is the one of the main program scaled down (outer : inner   *)
(* = 2.5 : 2.0), which keeps every product inside TLC's 32-bit integers.   *)
(* Rotations use fixed-point sines and cosines with TrigScale = 1000.      *)
(***************************************************************************)
EXTENDS Integers, Sequences, FiniteSets, TLC

(***************************************************************************)
(* The state of the main program: one call of calculate_coaster_centers    *)
(* followed by the two renderers.                                          *)
(***************************************************************************)
VARIABLES
    pc,              \* "call", "for", "while", "done", "complex", "individual", "raised"
    num_coasters,    \* argument
    max_retries,     \* argument
    cols, rows,      \* the grid
    r, c,            \* the loop variables of the two for loops
    ideal,           \* << ideal_cx, ideal_cy >> of the current slot
    valid, retries,  \* the state of the retry loop
    candidate_spec,  \* the last candidate sampled
    centers,         \* the placements so far
    fallback,        \* history: fallback[k] iff centers[k] was appended by the else branch
    attempts,        \* history: the number of candidates sampled in this call
    checker_calls,   \* history: the number of calls of check_coaster_constraints
    visited,         \* history: the grid slots whose body ran past the break test
    red_regions,           \* generate_complex_rings_svg: the red region of each ring
    red_regions_original   \* generate_individual_rings_svg: the red region of each ring

(***************************************************************************)
(* The state of one call of check_coaster_constraints on its own.          *)
(***************************************************************************)
VARIABLES
    chk_pc,          \* "args" while the arguments are drawn, "returned" after the call
    chk_candidate,   \* candidate_spec
    chk_existing,    \* existing_specs
    chk_threshold,   \* overlap_threshold
    chk_result       \* cond1, cond2, cond3 and the value returned

engine_vars == << pc, num_coasters, max_retries, cols, rows, r, c, ideal, valid, retries,
                  candidate_spec, centers, fallback, attempts, checker_calls, visited,
                  red_regions, red_regions_original >>

chk_vars == << chk_pc, chk_candidate, chk_existing, chk_threshold, chk_result >>

(***************************************************************************)
(* The state of one call of define_edges (puzzle_coasters-1.py; with       *)
(* randomize = FALSE it is define_edges of puzzle_coasters.py).            *)
(***************************************************************************)
VARIABLES
    edge_pc,         \* "idle", "call", "loop", "returned"
    edge_rows,       \* argument rows
    edge_cols,       \* argument cols
    randomize,       \* argument
    edges_map,       \* << r, c >> |-> [top, right, bottom, left]
    edge_r, edge_c   \* the loop variables r and c

edge_vars == << edge_pc, edge_rows, edge_cols, randomize, edges_map, edge_r, edge_c >>

\* puzzleshape.py run as a program, and the copy of generate_individual_svg in
\* unnamed/part_000.
VARIABLES
    poly_pc,         \* "idle", "main", "grid", "raised", "laid", "complex", "arrange", "draw", "saved"
    variant,         \* which generate_individual_svg runs: "puzzleshape" or "part_000"
    poly_num,        \* num, the number of coasters read from the input
    n_sides,         \* the number of sides read from the input
    rotation_flag,   \* the rotation answer read from the input
    poly_angle,      \* angle of calculate_coaster_centers
    poly_cols,       \* cols
    poly_rows,       \* rows
    poly_idx,        \* idx, also the loop index of the renderer's loops
    poly_r, poly_c,  \* the loop variables r and c
    poly_centers,    \* centers, then the list main builds its specs from
    poly_cells,      \* history: the grid cell each placement was computed for
    poly_red,        \* red of generate_complex_svg
    poly_rings,      \* rings of generate_individual_svg
    arranged,        \* arranged
    overlaps_list,   \* overlaps_list
    x_cursor,        \* x_cursor
    max_h,           \* max_h
    dwg              \* the elements added to the drawing, in order

poly_vars == << poly_pc, variant, poly_num, n_sides, rotation_flag, poly_angle, poly_cols,
                poly_rows, poly_idx, poly_r, poly_c, poly_centers, poly_cells, poly_red,
                poly_rings, arranged, overlaps_list, x_cursor, max_h, dwg >>

aux_vars == << edge_vars, poly_vars >>

vars == << engine_vars, chk_vars, aux_vars >>

EdgeIdle ==
    /\ edge_pc = "idle"
    /\ edge_rows = 0 /\ edge_cols = 0 /\ randomize = FALSE
    /\ edges_map = << >>
    /\ edge_r = 0 /\ edge_c = 0

PolyIdle ==
    /\ poly_pc = "idle" /\ variant = "puzzleshape"
    /\ poly_num = 0 /\ n_sides = 0 /\ rotation_flag = "n" /\ poly_angle = 0
    /\ poly_cols = 0 /\ poly_rows = 0 /\ poly_idx = 0 /\ poly_r = 0 /\ poly_c = 0
    /\ poly_centers = << >> /\ poly_cells = << >> /\ poly_red = << >>
    /\ poly_rings = << >> /\ arranged = << >> /\ overlaps_list = << >>
    /\ x_cursor = 0 /\ max_h = 0 /\ dwg = << >>

AuxIdle == EdgeIdle /\ PolyIdle

(***************************************************************************)
(* Bounds of the model.                                                    *)
(***************************************************************************)
MaxCoasters == 3
MaxRetries == 2
MaxExisting == 2
MaxEdgeRows == 2
MaxEdgeCols == 3
MaxPieces == 4

(***************************************************************************)
(* The coaster of the main program, in half pixels.                        *)
(***************************************************************************)
outer_w == 40
outer_h == 40
inner_w == 32
inner_h == 32
margin_between == 4
tol == 1
overlap_threshold == 1
allowed_angles == <<0, 15, 30, 45>>

(***************************************************************************)
(* Fixed-point rotation (shapely.affinity.rotate, degrees, counter-        *)
(* clockwise).                                                             *)
(***************************************************************************)
TrigScale == 1000

Cos(a) ==
    CASE a = 0 -> 1000 [] a = 15 -> 966 [] a = 30 -> 866 [] a = 45 -> 707

Sin(a) ==
    CASE a = 0 -> 0 [] a = 15 -> 259 [] a = 30 -> 500 [] a = 45 -> 707

\* TLC evaluates a constant function anew at every application unless it is
\* given as an explicit table; merging it with the empty function tabulates it.
Tabulated(f) == f @@ << >>

AbsV(x) == IF x < 0 THEN -x ELSE x
MaxV(x, y) == IF x < y THEN y ELSE x
MinV(x, y) == IF x < y THEN x ELSE y

(***************************************************************************)
(* A rectangle of width w and height h centred at (cx, cy) and rotated by  *)
(* angle about its centre.  A ring is an outer rectangle minus an inner    *)
(* one with the same centre and rotation.                                  *)
(***************************************************************************)
Rect(cx, cy, w, h, angle) == [cx |-> cx, cy |-> cy, w |-> w, h |-> h, angle |-> angle]

create_rectangle_ring(cx, cy, ow, oh, iw, ih, angle) ==
    [outer |-> Rect(cx, cy, ow, oh, angle), inner |-> Rect(cx, cy, iw, ih, angle)]

create_inner_polygon(cx, cy, ow, oh, iw, ih, angle) == Rect(cx, cy, iw, ih, angle)

\* The corner (sx * w/2, sy * h/2) of rect in world coordinates times TrigScale.
Corner(rect, sx, sy) ==
    << rect.cx * TrigScale
         + (sx * rect.w * Cos(rect.angle) - sy * rect.h * Sin(rect.angle)) \div 2,
       rect.cy * TrigScale
         + (sx * rect.w * Sin(rect.angle) + sy * rect.h * Cos(rect.angle)) \div 2 >>

\* list(poly.exterior.coords): the four corners, the first one repeated.
ExteriorCoords(rect) ==
    << Corner(rect, -1, -1), Corner(rect, 1, -1), Corner(rect, 1, 1),
       Corner(rect, -1, 1), Corner(rect, -1, -1) >>

\* A world point (times TrigScale) in the rectangle's own frame (times TrigScale).
Local(rect, P) ==
    LET dx == P[1] - rect.cx * TrigScale
        dy == P[2] - rect.cy * TrigScale
    IN  << (dx * Cos(rect.angle) + dy * Sin(rect.angle)) \div TrigScale,
           (dy * Cos(rect.angle) - dx * Sin(rect.angle)) \div TrigScale >>

\* How far P lies outside the rectangle along each local axis (negative: inside).
ExcessX(rect, P) == AbsV(Local(rect, P)[1]) - (rect.w * TrigScale) \div 2
ExcessY(rect, P) == AbsV(Local(rect, P)[2]) - (rect.h * TrigScale) \div 2

\* poly.contains(Point): strictly inside.
RectContains(rect, P) == ExcessX(rect, P) < 0 /\ ExcessY(rect, P) < 0

\* P is inside the rectangle or on its boundary.
RectCovers(rect, P) == ExcessX(rect, P) <= 0 /\ ExcessY(rect, P) <= 0

\* Point.distance(poly.boundary) > t
BoundaryDistGT(rect, P, t) ==
    LET ex == ExcessX(rect, P)
        ey == ExcessY(rect, P)
        px == MaxV(ex, 0)
        py == MaxV(ey, 0)
        tk == t * TrigScale
    IN  IF ex <= 0 /\ ey <= 0
        THEN MinV(-ex, -ey) > tk
        ELSE px > tk \/ py > tk \/ px * px + py * py > tk * tk

\* Point.distance(poly.boundary) < t
BoundaryDistLT(rect, P, t) ==
    LET ex == ExcessX(rect, P)
        ey == ExcessY(rect, P)
        px == MaxV(ex, 0)
        py == MaxV(ey, 0)
        tk == t * TrigScale
    IN  IF ex <= 0 /\ ey <= 0
        THEN MinV(-ex, -ey) < tk
        ELSE px < tk /\ py < tk /\ px * px + py * py < tk * tk

\* ring.contains(Point): strictly inside the outer rectangle, strictly outside the hole.
RingContains(ring, P) == RectContains(ring.outer, P) /\ ~RectCovers(ring.inner, P)

\* Point.distance(ring.boundary) < t: the boundary is both rectangles' outlines.
RingBoundaryDistLT(ring, P, t) ==
    BoundaryDistLT(ring.outer, P, t) \/ BoundaryDistLT(ring.inner, P, t)

(***************************************************************************)
(* Areas.  The plane is cut into cells of one square pixel whose centres   *)
(* have odd half-pixel coordinates; the area of a region is the number of  *)
(* cells whose centre it covers.  Ring centres have even coordinates.      *)
(***************************************************************************)
CellCentre(x, y) == << x * TrigScale, y * TrigScale >>

RingCoversCell(ring, x, y) ==
    /\ RectCovers(ring.outer, CellCentre(x, y))
    /\ ~RectCovers(ring.inner, CellCentre(x, y))

\* Odd coordinates within the circumscribed circle's bounding box of the outer rectangle.
CellRange(mid, w, h) ==
    { u \in (mid - (w + h)) .. (mid + (w + h)) : u % 2 = 1 }

RingCells(ring) ==
    { xy \in CellRange(ring.outer.cx, ring.outer.w \div 2, ring.outer.h \div 2)
             \X CellRange(ring.outer.cy, ring.outer.w \div 2, ring.outer.h \div 2) :
        RingCoversCell(ring, xy[1], xy[2]) }

\* ringA.intersection(ringB).area, computed cell by cell.
IntersectionCells(ringA, ringB) ==
    { xy \in RingCells(ringA) : RingCoversCell(ringB, xy[1], xy[2]) }

(***************************************************************************)
(* The intersection areas of two coasters of the main program's size are   *)
(* tabulated once, by the offset of the second centre from the first and   *)
(* the two rotations; InterArea reads the table and computes every other   *)
(* case cell by cell.                                                      *)
(***************************************************************************)
StdRing(cx, cy, angle) ==
    create_rectangle_ring(cx, cy, outer_w, outer_h, inner_w, inner_h, angle)

AngleSet == { allowed_angles[i] : i \in 1..Len(allowed_angles) }

\* Two rings whose centres are at least two circumradii apart share no cell.
TooFar(dx, dy, w, h) == dx * dx + dy * dy >= w * w + h * h

TableOffsets == { d \in (0 - (outer_w + outer_h)) .. (outer_w + outer_h) : d % 12 = 0 }

AreaKeys ==
    { k \in TableOffsets \X TableOffsets \X AngleSet \X AngleSet :
        ~TooFar(k[1], k[2], outer_w, outer_h) }

OriginCells == Tabulated([a \in AngleSet |-> { xy : xy \in RingCells(StdRing(0, 0, a)) }])

\* The cells of a ring of the main program's size at (dx, dy): those of the
\* ring at the origin, shifted (dx and dy are even, so cells map to cells).
ShiftedCells(dx, dy, a) == { << xy[1] + dx, xy[2] + dy >> : xy \in OriginCells[a] }

AreaTable ==
    Tabulated([k \in AreaKeys |->
        Cardinality(OriginCells[k[3]] \cap ShiftedCells(k[1], k[2], k[4]))])

IsStd(ring) ==
    /\ ring.outer.w = outer_w /\ ring.outer.h = outer_h
    /\ ring.inner.w = inner_w /\ ring.inner.h = inner_h
    /\ ring.outer.angle \in AngleSet

\* ringA.intersection(ringB).area
InterArea(ringA, ringB) ==
    LET dx == ringB.outer.cx - ringA.outer.cx
        dy == ringB.outer.cy - ringA.outer.cy
        k  == << dx, dy, ringA.outer.angle, ringB.outer.angle >>
    IN  IF IsStd(ringA) /\ IsStd(ringB) /\ TooFar(dx, dy, outer_w, outer_h) THEN 0
        ELSE IF IsStd(ringA) /\ IsStd(ringB) /\ k \in AreaKeys THEN AreaTable[k]
        ELSE Cardinality(IntersectionCells(ringA, ringB))

(***************************************************************************)
(* check_coaster_constraints.  A placement is << cx, cy, angle >>.  Each   *)
(* loop of the code is a recursion over the index it iterates, a break     *)
(* ending the recursion.                                                   *)
(***************************************************************************)
\* other_inner.contains(p) and p.distance(other_inner.boundary) > tol
DeepInHole(other_inner, P, t) ==
    RectContains(other_inner, P) /\ BoundaryDistGT(other_inner, P, t)

\* The loop over candidate_inner_pts from index k on: TRUE when it sets cond1.
RECURSIVE InnerPtsLoop(_, _, _, _)
InnerPtsLoop(other_inner, inner_pts, k, t) ==
    IF k > Len(inner_pts) THEN FALSE
    ELSE IF DeepInHole(other_inner, inner_pts[k], t) THEN TRUE
    ELSE InnerPtsLoop(other_inner, inner_pts, k + 1, t)

\* The loop over candidate_outer_pts from index j on: TRUE when cond1 is set.
RECURSIVE OuterPtsLoop(_, _, _, _, _)
OuterPtsLoop(other_inner, outer_pts, inner_pts, j, t) ==
    IF j > Len(outer_pts) THEN FALSE
    ELSE IF DeepInHole(other_inner, outer_pts[j], t)
              /\ InnerPtsLoop(other_inner, inner_pts, 1, t) THEN TRUE
    ELSE OuterPtsLoop(other_inner, outer_pts, inner_pts, j + 1, t)

\* The body of the cond1 loop for one existing piece.
SharedGapWith(cand, spec, ow, oh, iw, ih, t) ==
    OuterPtsLoop(create_inner_polygon(spec[1], spec[2], ow, oh, iw, ih, spec[3]),
                 ExteriorCoords(create_rectangle_ring(cand[1], cand[2], ow, oh, iw, ih, cand[3]).outer),
                 ExteriorCoords(create_rectangle_ring(cand[1], cand[2], ow, oh, iw, ih, cand[3]).inner),
                 1, t)

\* The vertex loop without the distance test.
RECURSIVE VertexLoop_no_distance(_, _, _, _)
VertexLoop_no_distance(other_coaster, pts, k, t) ==
    IF k > Len(pts) THEN TRUE
    ELSE IF RingContains(other_coaster, pts[k]) THEN FALSE
    ELSE VertexLoop_no_distance(other_coaster, pts, k + 1, t)

\* The loop over candidate_outer_pts + candidate_inner_pts from index k on:
\* FALSE when a vertex lies inside other_coaster or closer than tol to its boundary.
RECURSIVE VertexLoop(_, _, _, _)
VertexLoop(other_coaster, pts, k, t) ==
    IF k > Len(pts) THEN TRUE
    ELSE IF RingContains(other_coaster, pts[k]) THEN FALSE
    ELSE IF RingBoundaryDistLT(other_coaster, pts[k], t) THEN FALSE
    ELSE VertexLoop(other_coaster, pts, k + 1, t)

\* The body of the cond2 loop for one existing piece.
VerticesClearOf(cand, spec, ow, oh, iw, ih, t) ==
    VertexLoop(create_rectangle_ring(spec[1], spec[2], ow, oh, iw, ih, spec[3]),
               ExteriorCoords(create_rectangle_ring(cand[1], cand[2], ow, oh, iw, ih, cand[3]).outer)
                 \o ExteriorCoords(create_rectangle_ring(cand[1], cand[2], ow, oh, iw, ih, cand[3]).inner),
               1, t)

(***************************************************************************)
(* Both pair tests depend only on the offset between the two centres and   *)
(* on the two rotations; for coasters of the main program's size and the   *)
(* default tolerance they are tabulated once.                              *)
(***************************************************************************)
PairOffsets == { d \in (0 - (outer_w + outer_h)) .. (outer_w + outer_h) : d % 12 = 0 }

PairKeys == PairOffsets \X PairOffsets \X AngleSet \X AngleSet

SharedGapTable ==
    Tabulated([k \in PairKeys |->
        SharedGapWith(<< 0, 0, k[3] >>, << k[1], k[2], k[4] >>,
                      outer_w, outer_h, inner_w, inner_h, tol)])

VerticesClearTable ==
    Tabulated([k \in PairKeys |->
        VerticesClearOf(<< 0, 0, k[3] >>, << k[1], k[2], k[4] >>,
                        outer_w, outer_h, inner_w, inner_h, tol)])

PairKey(cand, spec) == << spec[1] - cand[1], spec[2] - cand[2], cand[3], spec[3] >>

IsStdCall(cand, spec, ow, oh, iw, ih, t) ==
    /\ ow = outer_w /\ oh = outer_h /\ iw = inner_w /\ ih = inner_h /\ t = tol
    /\ PairKey(cand, spec) \in PairKeys

SharedGap(cand, spec, ow, oh, iw, ih, t) ==
    IF IsStdCall(cand, spec, ow, oh, iw, ih, t)
    THEN SharedGapTable[PairKey(cand, spec)]
    ELSE SharedGapWith(cand, spec, ow, oh, iw, ih, t)

VerticesClear(cand, spec, ow, oh, iw, ih, t) ==
    IF IsStdCall(cand, spec, ow, oh, iw, ih, t)
    THEN VerticesClearTable[PairKey(cand, spec)]
    ELSE VerticesClearOf(cand, spec, ow, oh, iw, ih, t)

\* The cond1 loop with cond1 starting as True.
RECURSIVE Cond1Loop_default_true(_, _, _, _, _, _, _, _)
Cond1Loop_default_true(cand, existing_specs, i, ow, oh, iw, ih, t) ==
    IF i > Len(existing_specs) THEN TRUE
    ELSE IF SharedGap(cand, existing_specs[i], ow, oh, iw, ih, t) THEN TRUE
    ELSE Cond1Loop_default_true(cand, existing_specs, i + 1, ow, oh, iw, ih, t)

\* Condition 1: the loop over existing_specs from index i on.
RECURSIVE Cond1Loop(_, _, _, _, _, _, _, _)
Cond1Loop(cand, existing_specs, i, ow, oh, iw, ih, t) ==
    IF i > Len(existing_specs) THEN FALSE
    ELSE IF SharedGap(cand, existing_specs[i], ow, oh, iw, ih, t) THEN TRUE
    ELSE Cond1Loop(cand, existing_specs, i + 1, ow, oh, iw, ih, t)

\* The cond2 loop leaving after its first pass.
Cond2Loop_first_only(cand, existing_specs, i, ow, oh, iw, ih, t) ==
    IF i > Len(existing_specs) THEN TRUE
    ELSE VerticesClear(cand, existing_specs[i], ow, oh, iw, ih, t)

\* Condition 2: the loop over existing_specs from index i on.
RECURSIVE Cond2Loop(_, _, _, _, _, _, _, _)
Cond2Loop(cand, existing_specs, i, ow, oh, iw, ih, t) ==
    IF i > Len(existing_specs) THEN TRUE
    ELSE IF ~VerticesClear(cand, existing_specs[i], ow, oh, iw, ih, t) THEN FALSE
    ELSE Cond2Loop(cand, existing_specs, i + 1, ow, oh, iw, ih, t)

\* The overlap test counting an area equal to the threshold.
Overlaps_or_equal(cand, spec, ow, oh, iw, ih, thr) ==
    InterArea(create_rectangle_ring(cand[1], cand[2], ow, oh, iw, ih, cand[3]),
              create_rectangle_ring(spec[1], spec[2], ow, oh, iw, ih, spec[3])) >= thr

\* candidate_ring.intersection(other_ring).area > thr
Overlaps(cand, spec, ow, oh, iw, ih, thr) ==
    InterArea(create_rectangle_ring(cand[1], cand[2], ow, oh, iw, ih, cand[3]),
              create_rectangle_ring(spec[1], spec[2], ow, oh, iw, ih, spec[3])) > thr

\* The cond3 loop leaving after its first pass.
OverlapCountLoop_first_only(cand, existing_specs, i, count, ow, oh, iw, ih, thr) ==
    IF i > Len(existing_specs) THEN count
    ELSE IF Overlaps(cand, existing_specs[i], ow, oh, iw, ih, thr) THEN count + 1
    ELSE count

\* Condition 3: the loop over existing_specs from index i on, overlap_count so far
\* being count; its value is the final overlap_count (the loop breaks at 2).
RECURSIVE OverlapCountLoop(_, _, _, _, _, _, _, _, _)
OverlapCountLoop(cand, existing_specs, i, count, ow, oh, iw, ih, thr) ==
    IF i > Len(existing_specs) THEN count
    ELSE LET n == IF Overlaps(cand, existing_specs[i], ow, oh, iw, ih, thr)
                  THEN count + 1 ELSE count
         IN  IF n >= 2 THEN n
             ELSE OverlapCountLoop(cand, existing_specs, i + 1, n, ow, oh, iw, ih, thr)

Cond1(cand, existing_specs, ow, oh, iw, ih, t) ==
    Cond1Loop(cand, existing_specs, 1, ow, oh, iw, ih, t)

Cond2(cand, existing_specs, ow, oh, iw, ih, t) ==
    Cond2Loop(cand, existing_specs, 1, ow, oh, iw, ih, t)

Cond3(cand, existing_specs, ow, oh, iw, ih, thr) ==
    OverlapCountLoop(cand, existing_specs, 1, 0, ow, oh, iw, ih, thr) < 2

\* The checker returning without regard to cond1.
check_coaster_constraints_no_cond1(cand, existing_specs, ow, oh, iw, ih, t, thr) ==
    LET cond1 == Cond1(cand, existing_specs, ow, oh, iw, ih, t)
        cond2 == Cond2(cand, existing_specs, ow, oh, iw, ih, t)
        cond3 == Cond3(cand, existing_specs, ow, oh, iw, ih, thr)
    IN  [cond1 |-> cond1, cond2 |-> cond2, cond3 |-> cond3,
         ok |-> cond2 /\ cond3]

\* The three conditions as the code computes them, and the value returned.
check_coaster_constraints(cand, existing_specs, ow, oh, iw, ih, t, thr) ==
    LET cond1 == Cond1(cand, existing_specs, ow, oh, iw, ih, t)
        cond2 == Cond2(cand, existing_specs, ow, oh, iw, ih, t)
        cond3 == Cond3(cand, existing_specs, ow, oh, iw, ih, thr)
    IN  [cond1 |-> cond1, cond2 |-> cond2, cond3 |-> cond3,
         ok |-> cond1 /\ cond2 /\ cond3]


(***************************************************************************)
(* calculate_coaster_centers (rectangle variant).                          *)
(***************************************************************************)
None == << >>

\* math.ceil(math.sqrt(n))
CeilSqrt(n) == CHOOSE k \in 0..n : k * k >= n /\ (k = 0 \/ (k - 1) * (k - 1) < n)

\* math.ceil(n / d), d > 0
\* The quotient rounded down.
CeilDiv_floor(n, d) == n \div d

CeilDiv(n, d) == (n + d - 1) \div d

cell_w == (outer_w * 9) \div 10
cell_h == (outer_h * 9) \div 10
max_offset_x == cell_w \div 2
max_offset_y == cell_h \div 2
start_x == margin_between
start_y == margin_between

\* The left edge of the cell taken for its centre.
IdealCx_corner(col) == start_x + col * cell_w

IdealCx(col) == (start_x + col * cell_w) + cell_w \div 2
IdealCy(row) == (start_y + row * cell_h) + cell_h \div 2

\* The pairs << offset_x, offset_y >> the two calls of random.uniform of one pass
\* are let to return: those of the samples that lie in [-mx, mx] x [-my, my].
JitterSamples == { << -12, 12 >>, << 12, 0 >> }
Uniform(mx, my) ==
    { j \in JitterSamples : -mx <= j[1] /\ j[1] <= mx /\ -my <= j[2] /\ j[2] <= my }

\* The placement put in front of the list.
AppendPlacement_front(cs, p) == << p >> \o cs

\* centers.append(p)
AppendPlacement(cs, p) == Append(cs, p)

\* The break test letting one slot more through.
SlotsFilled_late(cs, n) == Len(cs) > n

\* The break test of the inner for loop.
SlotsFilled(cs, n) == Len(cs) >= n

\* The while test granting one attempt beyond the budget.
RetryAllowed_extra(v, n, m) == ~v /\ n <= m

\* The test of the while loop.
\* The loop going on after a candidate was found valid.
RetryAllowed_ignores_valid(v, n, m) == n < m

RetryAllowed(v, n, m) == ~v /\ n < m

\* The additional overlap count of the engine, with its literal threshold 1.0.
ExtraOverlapCount(cand, cs) ==
    OverlapCountLoop(cand, cs, 1, 0, outer_w, outer_h, inner_w, inner_h, 1)

\* The test of line 366 sending every candidate to the checker.
CallsChecker_always(cs) == TRUE

\* The else branch of line 366: the checker is called unless centers is empty.
CallsChecker(cs) == Len(cs) # 0

\* The additional count accepting only candidates without any overlap.
ExtraCountAccepts_none(count) == count < 1

\* Line 386: the additional count accepts fewer than two overlaps.
ExtraCountAccepts(count) == count < 2

\* The value valid gets in one pass of the while loop.
CandidateValid(cand, cs) ==
    IF ~CallsChecker(cs) THEN TRUE
    ELSE /\ check_coaster_constraints(cand, cs, outer_w, outer_h, inner_w, inner_h,
                                      tol, overlap_threshold).ok
         /\ ExtraCountAccepts(ExtraOverlapCount(cand, cs))

ChkIdle ==
    /\ chk_pc = "idle"
    /\ chk_candidate = None /\ chk_existing = << >>
    /\ chk_threshold = 0 /\ chk_result = None

Init ==
    /\ pc = "call"
    /\ num_coasters \in 0..MaxCoasters
    /\ max_retries \in 0..MaxRetries
    /\ cols = 0 /\ rows = 0 /\ r = 0 /\ c = 0
    /\ ideal = None
    /\ valid = FALSE /\ retries = 0
    /\ candidate_spec = None
    /\ centers = << >>
    /\ fallback = << >>
    /\ checker_calls = 0
    /\ attempts = 0
    /\ visited = {}
    /\ red_regions = << >>
    /\ red_regions_original = << >>
    /\ ChkIdle
    /\ AuxIdle

\* Lines 342-351.  ceil(num_coasters / cols) raises ZeroDivisionError when cols = 0.
Call ==
    /\ pc = "call"
    /\ cols' = CeilSqrt(num_coasters)
    /\ IF cols' = 0
       THEN /\ pc' = "raised"
            /\ UNCHANGED rows
       ELSE /\ pc' = "for"
            /\ rows' = CeilDiv(num_coasters, cols')
    /\ UNCHANGED << num_coasters, max_retries, r, c, ideal, valid, retries,
                    candidate_spec, centers, fallback, attempts, checker_calls, visited,
                    red_regions, red_regions_original, chk_vars, aux_vars >>

\* Lines 354-355: break leaves the inner loop; the outer loop goes to the next row.
Break ==
    /\ pc = "for" /\ r < rows
    /\ SlotsFilled(centers, num_coasters)
    /\ r' = r + 1 /\ c' = 0
    /\ UNCHANGED << pc, num_coasters, max_retries, cols, rows, ideal, valid, retries,
                    candidate_spec, centers, fallback, attempts, checker_calls, visited,
                    red_regions, red_regions_original, chk_vars, aux_vars >>

\* Lines 356-361.
EnterSlot ==
    /\ pc = "for" /\ r < rows
    /\ ~SlotsFilled(centers, num_coasters)
    /\ ideal' = << IdealCx(c), IdealCy(r) >>
    /\ valid' = FALSE /\ retries' = 0
    /\ visited' = visited \cup { << r, c >> }
    /\ pc' = "while"
    /\ UNCHANGED << num_coasters, max_retries, cols, rows, r, c, candidate_spec,
                    centers, fallback, attempts, checker_calls, red_regions, red_regions_original,
                    chk_vars, aux_vars >>

\* Lines 362-387: one pass of the while loop.
Attempt ==
    /\ pc = "while"
    /\ RetryAllowed(valid, retries, max_retries)
    /\ \E offset \in Uniform(max_offset_x, max_offset_y), angle \in AngleSet :
         /\ candidate_spec' = << ideal[1] + offset[1], ideal[2] + offset[2], angle >>
         /\ valid' = CandidateValid(candidate_spec', centers)
    /\ retries' = retries + 1
    /\ attempts' = attempts + 1
    /\ checker_calls' = IF CallsChecker(centers) THEN checker_calls + 1 ELSE checker_calls
    /\ UNCHANGED << pc, num_coasters, max_retries, cols, rows, r, c, ideal, centers,
                    fallback, visited, red_regions, red_regions_original, chk_vars, aux_vars >>

\* The for loops' step after the body of slot (r, c).
NextSlot ==
    IF c + 1 < cols THEN r' = r /\ c' = c + 1 ELSE r' = r + 1 /\ c' = 0

\* Lines 388-389.
AppendCandidate ==
    /\ pc = "while"
    /\ ~RetryAllowed(valid, retries, max_retries)
    /\ valid
    /\ centers' = AppendPlacement(centers, candidate_spec)
    /\ fallback' = Append(fallback, FALSE)
    /\ NextSlot
    /\ pc' = "for"
    /\ UNCHANGED << num_coasters, max_retries, cols, rows, ideal, valid, retries,
                    candidate_spec, attempts, checker_calls, visited, red_regions,
                    red_regions_original, chk_vars, aux_vars >>

\* The placement of lines 390-391.
\* The fallback keeping a jitter on the ideal centre.
FallbackPlacement_jittered(id, angle) == << id[1] + 12, id[2], angle >>

FallbackPlacement(id, angle) == << id[1], id[2], angle >>

\* Lines 390-391.
AppendFallback ==
    /\ pc = "while"
    /\ ~RetryAllowed(valid, retries, max_retries)
    /\ ~valid
    /\ \E angle \in AngleSet :
         centers' = AppendPlacement(centers, FallbackPlacement(ideal, angle))
    /\ fallback' = Append(fallback, TRUE)
    /\ NextSlot
    /\ pc' = "for"
    /\ UNCHANGED << num_coasters, max_retries, cols, rows, ideal, valid, retries,
                    candidate_spec, attempts, checker_calls, visited, red_regions,
                    red_regions_original, chk_vars, aux_vars >>

\* Line 392: centers is returned; the loop's local variables end with the call.
Return ==
    /\ pc = "for" /\ r >= rows
    /\ pc' = "done"
    /\ r' = 0 /\ c' = 0
    /\ ideal' = None
    /\ valid' = FALSE /\ retries' = 0
    /\ candidate_spec' = None
    /\ UNCHANGED << num_coasters, max_retries, cols, rows, centers, fallback,
                    attempts, checker_calls, visited, red_regions, red_regions_original, chk_vars, aux_vars >>

(***************************************************************************)
(* The renderers' overlap regions.  A region is kept as the ring it is cut *)
(* from and the rings it is cut with: [of |-> i, with |-> S, whole |-> w]  *)
(* is the whole ring i when w holds (rings[i].buffer(0)) and otherwise the *)
(* part of ring i covered by the rings of S.  A Python variable that is    *)
(* None until a first geometry is stored in it is the set S, empty for     *)
(* None.                                                                   *)
(***************************************************************************)
\* create_rectangle_ring for a spec of the main program.
RingOf(spec) == StdRing(spec[1], spec[2], spec[3])

\* generate_complex_rings_svg, lines 216-222: the loop over j from index j on.
RECURSIVE UnionOthersLoop(_, _, _, _)
UnionOthersLoop(rings, i, j, union_others) ==
    IF j > Len(rings) THEN union_others
    ELSE IF i = j THEN UnionOthersLoop(rings, i, j + 1, union_others)
    ELSE UnionOthersLoop(rings, i, j + 1, union_others \cup { j })

\* generate_complex_rings_svg, lines 223-226.
ComplexRedRegion(rings, i) ==
    LET union_others == UnionOthersLoop(rings, i, 1, {})
    IN  IF union_others # {}
        THEN [of |-> i, with |-> union_others, whole |-> FALSE]
        ELSE [of |-> i, with |-> {}, whole |-> TRUE]

\* generate_individual_rings_svg, lines 274-282: the loop over j from index j on.
RECURSIVE RedRegionLoop(_, _, _, _)
RedRegionLoop(rings, i, j, red_region) ==
    IF j > Len(rings) THEN red_region
    ELSE IF i = j THEN RedRegionLoop(rings, i, j + 1, red_region)
    ELSE IF InterArea(rings[i], rings[j]) = 0
         THEN RedRegionLoop(rings, i, j + 1, red_region)
         ELSE RedRegionLoop(rings, i, j + 1, red_region \cup { j })

\* generate_individual_rings_svg, lines 283-284.
IndividualRedRegion(rings, i) ==
    LET red_region == RedRegionLoop(rings, i, 1, {})
    IN  IF red_region = {}
        THEN [of |-> i, with |-> {}, whole |-> TRUE]
        ELSE [of |-> i, with |-> red_region, whole |-> FALSE]

\* region.is_empty, for a region cut from the rings of specs.
RegionIsEmpty(region, specs) ==
    /\ ~region.whole
    /\ \A j \in region.with :
         InterArea(RingOf(specs[region.of]), RingOf(specs[j])) = 0

\* Lines 405-412: the specs are built from centers and the complex SVG is generated.
RenderComplex ==
    /\ pc = "done"
    /\ LET rings == [k \in 1..Len(centers) |-> RingOf(centers[k])]
       IN  red_regions' = [k \in 1..Len(centers) |-> ComplexRedRegion(rings, k)]
    /\ pc' = "complex"
    /\ UNCHANGED << num_coasters, max_retries, cols, rows, r, c, ideal, valid, retries,
                    candidate_spec, centers, fallback, attempts, checker_calls, visited,
                    red_regions_original, chk_vars, aux_vars >>

\* Line 414.
RenderIndividual ==
    /\ pc = "complex"
    /\ LET rings == [k \in 1..Len(centers) |-> RingOf(centers[k])]
       IN  red_regions_original' =
               [k \in 1..Len(centers) |-> IndividualRedRegion(rings, k)]
    /\ pc' = "individual"
    /\ UNCHANGED << num_coasters, max_retries, cols, rows, r, c, ideal, valid, retries,
                    candidate_spec, centers, fallback, attempts, checker_calls, visited,
                    red_regions, chk_vars, aux_vars >>

Next ==
    \/ Call
    \/ Break
    \/ EnterSlot
    \/ Attempt
    \/ AppendCandidate
    \/ AppendFallback
    \/ Return
    \/ RenderComplex
    \/ RenderIndividual

Spec == Init /\ [][Next]_vars


(***************************************************************************)
(* check_coaster_constraints called on its own: the arguments are drawn    *)
(* from placements around the candidate, then the call is made.            *)
(***************************************************************************)
\* Offsets of an existing piece from the candidate: corner overlaps on either
\* side, side overlaps, an overlap of exactly one square pixel, a piece that (not
\* rotated) lies clear of the candidate.
CheckerOffsets ==
    { << -24, -24 >>, << 24, 24 >>, << -24, 0 >>, << 0, 24 >>, << 36, 24 >>, << 48, 0 >> }

CheckerCandidates == { << 36, 36, a >> : a \in AngleSet }

CheckerPlacements ==
    { << 36 + d[1], 36 + d[2], a >> : d \in CheckerOffsets, a \in AngleSet }

\* The default threshold and one that some intersection areas equal.
CheckerThresholds == { overlap_threshold, 8 * overlap_threshold }

InitChecker ==
    /\ pc = "checker"
    /\ num_coasters = 0 /\ max_retries = 0
    /\ cols = 0 /\ rows = 0 /\ r = 0 /\ c = 0
    /\ ideal = None /\ valid = FALSE /\ retries = 0
    /\ candidate_spec = None /\ centers = << >> /\ fallback = << >>
    /\ checker_calls = 0
    /\ attempts = 0 /\ visited = {}
    /\ red_regions = << >> /\ red_regions_original = << >>
    /\ chk_pc = "args"
    /\ chk_candidate \in CheckerCandidates
    /\ chk_existing = << >>
    /\ chk_threshold \in CheckerThresholds
    /\ chk_result = None
    /\ AuxIdle

\* One more placement is put into existing_specs.
AddExisting ==
    /\ chk_pc = "args"
    /\ Len(chk_existing) < MaxExisting
    /\ \E p \in CheckerPlacements : chk_existing' = Append(chk_existing, p)
    /\ UNCHANGED << chk_pc, chk_candidate, chk_threshold, chk_result, engine_vars, aux_vars >>

\* The call: lines 114-192.
RunCheck ==
    /\ chk_pc = "args"
    /\ chk_result' = check_coaster_constraints(chk_candidate, chk_existing,
                                                outer_w, outer_h, inner_w, inner_h,
                                                tol, chk_threshold)
    /\ chk_pc' = "returned"
    /\ UNCHANGED << chk_candidate, chk_existing, chk_threshold, engine_vars, aux_vars >>

NextChecker ==
    \/ AddExisting
    \/ RunCheck

SpecChecker == InitChecker /\ [][NextChecker]_vars

(***************************************************************************)
(* The checker both ways: as the engine calls it and called on its own.    *)
(***************************************************************************)
InitAll == Init \/ InitChecker

NextAll ==
    \/ Next
    \/ NextChecker

SpecAll == InitAll /\ [][NextAll]_vars

(***************************************************************************)
(* define_edges.                                                           *)
(***************************************************************************)
\* The placement program at rest while another program of the repository runs.
EngineOff ==
    /\ pc = "off"
    /\ num_coasters = 0 /\ max_retries = 0
    /\ cols = 0 /\ rows = 0 /\ r = 0 /\ c = 0
    /\ ideal = None /\ valid = FALSE /\ retries = 0
    /\ candidate_spec = None /\ centers = << >> /\ fallback = << >>
    /\ checker_calls = 0
    /\ attempts = 0 /\ visited = {}
    /\ red_regions = << >> /\ red_regions_original = << >>

\* The edge types keeping their value under the function.
opposite_edge_same(e) == e

opposite_edge(e) ==
    IF e = "out" THEN "in"
    ELSE IF e = "in" THEN "out"
    ELSE "none"

\* random.choice(["in", "out"]) when randomize, "out" otherwise.
EdgeChoices(rand) == IF rand THEN {"in", "out"} ELSE {"out"}

\* The right edge chosen for every column.
HasRightNeighbour_all(col, ncols) == col < ncols

\* The test of line 57.
HasRightNeighbour(col, ncols) == col < ncols - 1

\* The test of line 66.
HasBelowNeighbour(row, nrows) == row < nrows - 1

InitEdges ==
    /\ EngineOff /\ ChkIdle /\ PolyIdle
    /\ edge_pc = "call"
    /\ edge_rows \in 0..MaxEdgeRows
    /\ edge_cols \in 0..MaxEdgeCols
    /\ randomize \in BOOLEAN
    /\ edges_map = << >>
    /\ edge_r = 0 /\ edge_c = 0

\* Lines 39-40: every edge of every cell starts as "none".
DefineEdges ==
    /\ edge_pc = "call"
    /\ edges_map' = [cell \in (0..(edge_rows - 1)) \X (0..(edge_cols - 1)) |->
                        [top |-> "none", right |-> "none", bottom |-> "none", left |-> "none"]]
    /\ edge_r' = 0 /\ edge_c' = 0
    /\ edge_pc' = "loop"
    /\ UNCHANGED << edge_rows, edge_cols, randomize, engine_vars, chk_vars, poly_vars >>

\* Lines 44-72: the body of the loops for cell (r, c), and the loops' step.
EdgeCell ==
    /\ edge_pc = "loop"
    /\ edge_r < edge_rows /\ edge_c < edge_cols
    /\ \E right \in (IF HasRightNeighbour(edge_c, edge_cols) THEN EdgeChoices(randomize) ELSE {"none"}),
          bottom \in (IF HasBelowNeighbour(edge_r, edge_rows) THEN EdgeChoices(randomize) ELSE {"none"}) :
         edges_map' =
            [edges_map EXCEPT ![<< edge_r, edge_c >>] =
                [top |-> IF edge_r > 0
                         THEN opposite_edge(edges_map[<< edge_r - 1, edge_c >>].bottom)
                         ELSE "none",
                 left |-> IF edge_c > 0
                          THEN opposite_edge(edges_map[<< edge_r, edge_c - 1 >>].right)
                          ELSE "none",
                 right |-> right,
                 bottom |-> bottom]]
    /\ IF edge_c + 1 < edge_cols
       THEN edge_c' = edge_c + 1 /\ edge_r' = edge_r
       ELSE edge_c' = 0 /\ edge_r' = edge_r + 1
    /\ UNCHANGED << edge_pc, edge_rows, edge_cols, randomize, engine_vars, chk_vars, poly_vars >>

\* Line 73.
EdgeReturn ==
    /\ edge_pc = "loop"
    /\ edge_r >= edge_rows \/ edge_cols = 0
    /\ edge_pc' = "returned"
    /\ UNCHANGED << edge_rows, edge_cols, randomize, edges_map, edge_r, edge_c,
                    engine_vars, chk_vars, poly_vars >>

NextEdges ==
    \/ DefineEdges
    \/ EdgeCell
    \/ EdgeReturn

SpecEdges == InitEdges /\ [][NextEdges]_vars

(***************************************************************************)
(* puzzleshape.py: regular polygon rings.  Lengths are in thousandths of a *)
(* pixel.  With 3, 4 or 6 sides and rotations that are multiples of 15     *)
(* degrees every direction met is a multiple of 15 degrees, whose cosine   *)
(* is read from a table.  A vertex is kept in polar form about the centre, *)
(* so that rotate is the addition of angles.                               *)
(***************************************************************************)
PolyUnit == 1000

DPI == 96
margin == 50
overlap_ratio == 37                    \* in hundredths

poly_outer_w == 3 * DPI * PolyUnit
poly_outer_h == 3 * DPI * PolyUnit
poly_inner_w == (9 * DPI * PolyUnit) \div 4
poly_inner_h == (9 * DPI * PolyUnit) \div 4

\* cos of 0, 15, ..., 90 degrees, times TrigScale.
CosTable == << 1000, 966, 866, 707, 500, 259, 0 >>

PolyCos(deg) ==
    LET a == deg % 360
    IN  IF a <= 90 THEN CosTable[a \div 15 + 1]
        ELSE IF a <= 180 THEN 0 - CosTable[(180 - a) \div 15 + 1]
        ELSE IF a <= 270 THEN 0 - CosTable[(a - 180) \div 15 + 1]
        ELSE CosTable[(360 - a) \div 15 + 1]

PolySin(deg) == PolyCos(deg + 270)

\* A shape is the set of the sample points it covers, the points of the plane
\* whose coordinates are multiples of 12 pixels, with its bounding box
\* << minx, miny, maxx, maxy >>.
SampleStep == 12 * PolyUnit

SetMin(S) == CHOOSE x \in S : \A y \in S : x <= y
SetMax(S) == CHOOSE x \in S : \A y \in S : y <= x

\* regular_polygon_vertices: vertex i at distance radius and direction 360 i / n.
regular_polygon_vertices(sides, radius) ==
    [i \in 1..sides |-> [radius |-> radius, at |-> (360 * (i - 1)) \div sides]]

\* rotate about the origin, then translate: the coordinates of a vertex.
VertexXY(v, turn, cx, cy) ==
    << cx + (v.radius * PolyCos(v.at + turn)) \div TrigScale,
       cy + (v.radius * PolySin(v.at + turn)) \div TrigScale >>

\* The bounding box of a polygon given by its vertices.
BoxOf(pts) ==
    << SetMin({ pts[i][1] : i \in DOMAIN pts }), SetMin({ pts[i][2] : i \in DOMAIN pts }),
       SetMax({ pts[i][1] : i \in DOMAIN pts }), SetMax({ pts[i][2] : i \in DOMAIN pts }) >>

\* The polygon with the given vertices, turned and moved, covers point P: P
\* lies on the inner side of every edge.  The edge after vertex i has its outward
\* normal in direction v.at + turn + 180 / n, at distance radius * cos(180 / n).
PolygonCovers(verts, turn, cx, cy, P) ==
    \A i \in DOMAIN verts :
        (P[1] - cx) * PolyCos(verts[i].at + turn + 180 \div Len(verts))
            + (P[2] - cy) * PolySin(verts[i].at + turn + 180 \div Len(verts))
        <= verts[i].radius * PolyCos(180 \div Len(verts))

SampleRange(lo, hi) ==
    { g * SampleStep : g \in (lo \div SampleStep) .. (hi \div SampleStep + 1) }

\* create_polygon_ring, lines 36-52.
create_polygon_ring(cx, cy, sides, outer_r, inner_r, angle) ==
    LET outer_pts == regular_polygon_vertices(sides, outer_r)
        inner_pts == regular_polygon_vertices(sides, inner_r)
        initial_offset == 180 \div sides
        total_angle == angle + initial_offset
        box == BoxOf([i \in DOMAIN outer_pts |-> VertexXY(outer_pts[i], total_angle, cx, cy)])
    IN  [pts |-> { P : P \in
                     { Q \in SampleRange(box[1], box[3]) \X SampleRange(box[2], box[4]) :
                         /\ PolygonCovers(outer_pts, total_angle, cx, cy, Q)
                         /\ ~PolygonCovers(inner_pts, total_angle, cx, cy, Q) } },
         box |-> box]

\* Polygon(...) of fewer than three points raises, and so does 180.0 / n_sides
\* for no sides at all.
PolygonRaises(sides) == sides < 3

\* shapely.affinity.translate
Translate(shape, xoff, yoff) ==
    [pts |-> { << P[1] + xoff, P[2] + yoff >> : P \in shape.pts },
     box |-> << shape.box[1] + xoff, shape.box[2] + yoff,
                shape.box[3] + xoff, shape.box[4] + yoff >>]

\* shapely.affinity.scale with factors of 1 or -1 about origin << ox, oy >>.
ScaleX(xfact, ox, x) == ox + xfact * (x - ox)

Scale(shape, xfact, yfact, ox, oy) ==
    [pts |-> { << ScaleX(xfact, ox, P[1]), ScaleX(yfact, oy, P[2]) >> : P \in shape.pts },
     box |-> << MinV(ScaleX(xfact, ox, shape.box[1]), ScaleX(xfact, ox, shape.box[3])),
                MinV(ScaleX(yfact, oy, shape.box[2]), ScaleX(yfact, oy, shape.box[4])),
                MaxV(ScaleX(xfact, ox, shape.box[1]), ScaleX(xfact, ox, shape.box[3])),
                MaxV(ScaleX(yfact, oy, shape.box[2]), ScaleX(yfact, oy, shape.box[4])) >>]

\* a.intersection(b)
Intersection(a, b) ==
    [pts |-> a.pts \cap b.pts,
     box |-> << MaxV(a.box[1], b.box[1]), MaxV(a.box[2], b.box[2]),
                MinV(a.box[3], b.box[3]), MinV(a.box[4], b.box[4]) >>]

\* a.union(b)
Union(a, b) ==
    [pts |-> a.pts \cup b.pts,
     box |-> << MinV(a.box[1], b.box[1]), MinV(a.box[2], b.box[2]),
                MaxV(a.box[3], b.box[3]), MaxV(a.box[4], b.box[4]) >>]

\* g.is_empty
IsEmpty(shape) == shape.pts = {}

(***************************************************************************)
(* puzzleshape.py: calculate_coaster_centers and the main program.         *)
(***************************************************************************)
poly_allowed_angles == << 15, 30, 45, 60, 75 >>

\* The side counts and rotation answers typed in; 2 is not a polygon.
SideCounts == { 2, 3, 4, 6 }
RotationFlags == { "y", "n", "Y" }

\* The chain if / elif / else: 1.7 kept for fewer than five sides.
StepMultiplier_elif(sides) ==
    IF sides < 5 THEN 17 ELSE IF sides = 4 THEN 15 ELSE 18

\* Lines 156-164, in tenths: the first assignment is made when n_sides < 5, then
\* the if-else that follows assigns in both of its branches.
StepMultiplier(sides) ==
    LET first == IF sides < 5 THEN 17 ELSE 0
    IN  IF sides = 4 THEN 15 ELSE 18

\* step_x and step_y for an extent of ow.
Step(sides, ow) == (StepMultiplier(sides) * ow * (100 - overlap_ratio)) \div 1000

\* The extents main passes as outer_w and outer_h (lines 323-324).
LayoutW == poly_outer_w \div 2
LayoutH == poly_inner_w \div 2

\* No row staggered.
StaggerX_none(row, step_x) == 0

\* Line 182.
StaggerX(row, step_x) == IF row % 2 = 1 THEN step_x \div 2 ELSE 0

\* Lines 185-186.
PolyCx(sides, row, col) ==
    margin * PolyUnit + col * Step(sides, LayoutW) + StaggerX(row, Step(sides, LayoutW))
PolyCy(sides, row) == margin * PolyUnit + row * Step(sides, LayoutH)

\* The rotation drawn whatever the answer.
AngleChoices_always(flag) ==
    { poly_allowed_angles[i] : i \in 1..Len(poly_allowed_angles) }

\* Lines 169-173.
AngleChoices(flag) ==
    IF flag = "y"
    THEN { poly_allowed_angles[i] : i \in 1..Len(poly_allowed_angles) }
    ELSE { 0 }

InitPolygon ==
    /\ EngineOff /\ ChkIdle /\ EdgeIdle
    /\ poly_pc = "main"
    /\ variant \in { "puzzleshape", "part_000" }
    /\ poly_num \in 0..MaxPieces
    /\ n_sides \in SideCounts
    /\ rotation_flag \in RotationFlags
    /\ poly_angle = 0
    /\ poly_cols = 0 /\ poly_rows = 0 /\ poly_idx = 0 /\ poly_r = 0 /\ poly_c = 0
    /\ poly_centers = << >> /\ poly_cells = << >> /\ poly_red = << >>
    /\ poly_rings = << >> /\ arranged = << >> /\ overlaps_list = << >>
    /\ x_cursor = 0 /\ max_h = 0 /\ dwg = << >>

\* Lines 150-175: the call, up to the loops; rows divides by cols.
PolyCall ==
    /\ poly_pc = "main"
    /\ poly_cols' = CeilSqrt(poly_num)
    /\ IF poly_cols' = 0
       THEN /\ poly_pc' = "raised"
            /\ UNCHANGED << poly_rows, poly_angle >>
       ELSE /\ poly_rows' = CeilDiv(poly_num, poly_cols')
            /\ poly_angle' \in AngleChoices(rotation_flag)
            /\ poly_pc' = "grid"
    /\ poly_idx' = 0 /\ poly_r' = 0 /\ poly_c' = 0
    /\ poly_centers' = << >>
    /\ UNCHANGED << variant, poly_num, n_sides, rotation_flag, poly_cells, poly_red,
                    poly_rings, arranged, overlaps_list, x_cursor, max_h, dwg,
                    engine_vars, chk_vars, edge_vars >>

\* Lines 176-189: one pass of the loop body, and the loops' step.
PolyPlace ==
    /\ poly_pc = "grid"
    /\ poly_r < poly_rows /\ poly_c < poly_cols
    /\ poly_idx < poly_num
    /\ poly_centers' = Append(poly_centers,
                              << PolyCx(n_sides, poly_r, poly_c), PolyCy(n_sides, poly_r),
                                 poly_angle >>)
    /\ poly_cells' = Append(poly_cells, << poly_r, poly_c >>)
    /\ poly_idx' = poly_idx + 1
    /\ IF poly_c + 1 < poly_cols
       THEN poly_c' = poly_c + 1 /\ poly_r' = poly_r
       ELSE poly_c' = 0 /\ poly_r' = poly_r + 1
    /\ UNCHANGED << poly_pc, variant, poly_num, n_sides, rotation_flag, poly_angle, poly_cols,
                    poly_rows, poly_red, poly_rings, arranged, overlaps_list, x_cursor,
                    max_h, dwg, engine_vars, chk_vars, edge_vars >>

\* Lines 178-179: the break out of the loop over c.
PolyBreak ==
    /\ poly_pc = "grid"
    /\ poly_r < poly_rows /\ poly_c < poly_cols
    /\ poly_idx >= poly_num
    /\ poly_r' = poly_r + 1 /\ poly_c' = 0
    /\ UNCHANGED << poly_pc, variant, poly_num, n_sides, rotation_flag, poly_angle, poly_cols,
                    poly_rows, poly_idx, poly_centers, poly_cells, poly_red, poly_rings,
                    arranged, overlaps_list, x_cursor, max_h, dwg,
                    engine_vars, chk_vars, edge_vars >>

\* Line 191, and lines 325-327 of main: every spec is its centre with the sizes
\* of main and n_sides.
PolyReturn ==
    /\ poly_pc = "grid"
    /\ poly_r >= poly_rows
    /\ poly_pc' = "laid"
    /\ UNCHANGED << variant, poly_num, n_sides, rotation_flag, poly_angle, poly_cols,
                    poly_rows, poly_idx, poly_r, poly_c, poly_centers, poly_cells, poly_red,
                    poly_rings, arranged, overlaps_list, x_cursor, max_h, dwg,
                    engine_vars, chk_vars, edge_vars >>

\* The rings of the specs main can build are computed once, by side count,
\* centre and rotation.
RingKeys ==
    { << sides, PolyCx(sides, row, col), PolyCy(sides, row), a >> :
        sides \in { n \in SideCounts : ~PolygonRaises(n) },
        row \in 0..(CeilSqrt(MaxPieces) - 1),
        col \in 0..(CeilSqrt(MaxPieces) - 1),
        a \in AngleChoices("y") \cup AngleChoices("n") }

RingTable ==
    Tabulated([k \in RingKeys |->
        create_polygon_ring(k[2], k[3], k[1], poly_outer_w \div 2, poly_inner_w \div 2, k[4])])

\* The ring of a spec of main: create_polygon_ring(cx, cy, n, ow / 2, iw / 2, angle).
PolyRingOf(spec, sides) ==
    IF << sides, spec[1], spec[2], spec[3] >> \in RingKeys
    THEN RingTable[<< sides, spec[1], spec[2], spec[3] >>]
    ELSE create_polygon_ring(spec[1], spec[2], sides,
                             poly_outer_w \div 2, poly_inner_w \div 2, spec[3])

\* generate_complex_svg, lines 200-203: the loop over j from index j on; u is
\* None until a ring is stored in it.
RECURSIVE ComplexUnionLoop(_, _, _, _)
ComplexUnionLoop(ring_list, i, j, u) ==
    IF j > Len(ring_list) THEN u
    ELSE IF i = j THEN ComplexUnionLoop(ring_list, i, j + 1, u)
    ELSE ComplexUnionLoop(ring_list, i, j + 1,
                          IF u = None THEN ring_list[j] ELSE Union(u, ring_list[j]))

\* Line 204; a geometry is true when it is not empty.
ComplexRed(ring_list, i) ==
    LET u == ComplexUnionLoop(ring_list, i, 1, None)
    IN  IF u # None /\ ~IsEmpty(u) THEN Intersection(ring_list[i], u) ELSE ring_list[i]

\* Line 329: generate_complex_svg; the first ring it creates raises for fewer
\* than three sides.
PolyComplex ==
    /\ poly_pc = "laid"
    /\ IF PolygonRaises(n_sides)
       THEN /\ poly_pc' = "raised"
            /\ UNCHANGED poly_red
       ELSE /\ LET ring_list == [k \in 1..Len(poly_centers) |->
                                    PolyRingOf(poly_centers[k], n_sides)]
               IN  poly_red' = [k \in 1..Len(poly_centers) |-> ComplexRed(ring_list, k)]
            /\ poly_pc' = "complex"
    /\ UNCHANGED << variant, poly_num, n_sides, rotation_flag, poly_angle, poly_cols,
                    poly_rows, poly_idx, poly_r, poly_c, poly_centers, poly_cells,
                    poly_rings, arranged, overlaps_list, x_cursor, max_h, dwg,
                    engine_vars, chk_vars, edge_vars >>

\* generate_individual_svg, lines 232-241.
PolyRings ==
    /\ poly_pc = "complex"
    /\ poly_rings' = [k \in 1..Len(poly_centers) |-> PolyRingOf(poly_centers[k], n_sides)]
    /\ arranged' = << >> /\ overlaps_list' = << >>
    /\ x_cursor' = margin * PolyUnit
    /\ max_h' = 0
    /\ poly_idx' = 0
    /\ poly_pc' = "arrange"
    /\ UNCHANGED << variant, poly_num, n_sides, rotation_flag, poly_angle, poly_cols,
                    poly_rows, poly_r, poly_c, poly_centers, poly_cells, poly_red, dwg,
                    engine_vars, chk_vars, edge_vars >>

\* The colour given to the region of every other piece.
OverlapColor_all_blue(idx, jdx) == "blue"

\* Line 263 (indices from 0, as in the code).
OverlapColor(idx, jdx) == IF idx > jdx THEN "blue" ELSE "red"

\* Lines 257-264: the loop over jdx from jdx on.  An entry keeps, beside the
\* region and the colour of the code, the index of the other piece.
RECURSIVE OverlapsLoop(_, _, _, _, _, _, _, _)
OverlapsLoop(ring_list, idx, jdx, norm, xoff, yoff, dx, dy) ==
    IF jdx >= Len(ring_list) THEN << >>
    ELSE IF jdx = idx THEN OverlapsLoop(ring_list, idx, jdx + 1, norm, xoff, yoff, dx, dy)
    ELSE LET other_norm == Translate(ring_list[jdx + 1], xoff, yoff)
             region == Intersection(norm, other_norm)
         IN  IF IsEmpty(region)
             THEN OverlapsLoop(ring_list, idx, jdx + 1, norm, xoff, yoff, dx, dy)
             ELSE << [region |-> Translate(region, dx, dy),
                      color |-> OverlapColor(idx, jdx),
                      with |-> jdx] >>
                  \o OverlapsLoop(ring_list, idx, jdx + 1, norm, xoff, yoff, dx, dy)

\* Lines 243-267: one pass of the first loop, for piece poly_idx.
PolyArrange ==
    /\ poly_pc = "arrange"
    /\ poly_idx < Len(poly_rings)
    /\ LET spec == poly_centers[poly_idx + 1]
           xoff == poly_outer_w \div 2 - spec[1]
           yoff == poly_outer_h \div 2 - spec[2]
           norm == Translate(poly_rings[poly_idx + 1], xoff, yoff)
           w == norm.box[3] - norm.box[1]
           h == norm.box[4] - norm.box[2]
           dx == x_cursor - norm.box[1]
           dy == margin * PolyUnit - norm.box[2]
       IN  /\ max_h' = MaxV(max_h, h)
           /\ arranged' = Append(arranged, Translate(norm, dx, dy))
           /\ overlaps_list' =
                 Append(overlaps_list,
                        OverlapsLoop(poly_rings, poly_idx, 0, norm, xoff, yoff, dx, dy))
           /\ x_cursor' = x_cursor + w + margin * PolyUnit
    /\ poly_idx' = poly_idx + 1
    /\ UNCHANGED << poly_pc, variant, poly_num, n_sides, rotation_flag, poly_angle, poly_cols,
                    poly_rows, poly_r, poly_c, poly_centers, poly_cells, poly_red, poly_rings,
                    dwg, engine_vars, chk_vars, edge_vars >>

\* Lines 270-272: the canvas is sized and the drawing created.
PolyCanvas ==
    /\ poly_pc = "arrange"
    /\ poly_idx >= Len(poly_rings)
    /\ dwg' = << >>
    /\ poly_idx' = 0
    /\ poly_pc' = "draw"
    /\ UNCHANGED << variant, poly_num, n_sides, rotation_flag, poly_angle, poly_cols,
                    poly_rows, poly_r, poly_c, poly_centers, poly_cells, poly_red, poly_rings,
                    arranged, overlaps_list, x_cursor, max_h, engine_vars, chk_vars, edge_vars >>

\* Line 274.
row2_offset == max_h + 2 * margin * PolyUnit

\* shapely_to_svg_path: the path lists the coordinates of the shape, and is
\* empty for an empty shape.
shapely_to_svg_path(g) == IF IsEmpty(g) THEN {} ELSE g.pts

\* dwg.path(...): an element of the drawing.  Beside the path and the stroke
\* it keeps the piece it was drawn for and the row it was drawn in.
Path(g, stroke, piece, row) ==
    [d |-> shapely_to_svg_path(g), stroke |-> stroke, piece |-> piece, row |-> row]

\* puzzleshape.py, lines 292-296 and 302-303: scale by (1, -1) about
\* (0, axis_y), then translate to the second row.
MirrorPuzzleshape(shape, box) ==
    LET axis_y == (box[2] + box[4]) \div 2
    IN  Translate(Scale(shape, 1, -1, 0, axis_y), 0, row2_offset)

\* unnamed/part_000, lines 71-75 and 81-82: scale by (-1, 1) about
\* (axis_x, 0), then translate to the second row.
MirrorPart000(shape, box) ==
    LET axis_x == (box[1] + box[3]) \div 2
    IN  Translate(Scale(shape, -1, 1, axis_x, 0), 0, row2_offset)

Mirror(shape, box) ==
    IF variant = "puzzleshape" THEN MirrorPuzzleshape(shape, box)
    ELSE MirrorPart000(shape, box)

\* Lines 281-287 and 300-308: the regions of one colour, each through draw.
RECURSIVE RegionPaths(_, _, _, _, _, _, _)
RegionPaths(overlaps, k, wanted, piece, row, mirror, box) ==
    IF k > Len(overlaps) THEN << >>
    ELSE IF overlaps[k].color # wanted
         THEN RegionPaths(overlaps, k + 1, wanted, piece, row, mirror, box)
         ELSE << Path(IF mirror THEN Mirror(overlaps[k].region, box) ELSE overlaps[k].region,
                      overlaps[k].color, piece, row) >>
              \o RegionPaths(overlaps, k + 1, wanted, piece, row, mirror, box)

\* The test deciding on a mirrored copy taken as passed by every piece.
AnyBlue_always(overlaps) == TRUE

\* Line 290: any(color == "blue" for _, color in overlaps).
AnyBlue(overlaps) == \E k \in 1..Len(overlaps) : overlaps[k].color = "blue"

\* Lines 276-308: one pass of the second loop, for piece poly_idx.
PolyDraw ==
    /\ poly_pc = "draw"
    /\ poly_idx < Len(arranged)
    /\ LET ring_shape == arranged[poly_idx + 1]
           overlaps == overlaps_list[poly_idx + 1]
       IN  dwg' = dwg
                  \o << Path(ring_shape, "black", poly_idx, 1) >>
                  \o RegionPaths(overlaps, 1, "red", poly_idx, 1, FALSE, ring_shape.box)
                  \o (IF AnyBlue(overlaps)
                      THEN << Path(Mirror(ring_shape, ring_shape.box), "black", poly_idx, 2) >>
                           \o RegionPaths(overlaps, 1, "blue", poly_idx, 2, TRUE,
                                          ring_shape.box)
                      ELSE << >>)
    /\ poly_idx' = poly_idx + 1
    /\ UNCHANGED << poly_pc, variant, poly_num, n_sides, rotation_flag, poly_angle, poly_cols,
                    poly_rows, poly_r, poly_c, poly_centers, poly_cells, poly_red, poly_rings,
                    arranged, overlaps_list, x_cursor, max_h, engine_vars, chk_vars, edge_vars >>

\* Lines 310-311.
PolySave ==
    /\ poly_pc = "draw"
    /\ poly_idx >= Len(arranged)
    /\ poly_pc' = "saved"
    /\ UNCHANGED << variant, poly_num, n_sides, rotation_flag, poly_angle, poly_cols,
                    poly_rows, poly_idx, poly_r, poly_c, poly_centers, poly_cells, poly_red,
                    poly_rings, arranged, overlaps_list, x_cursor, max_h, dwg,
                    engine_vars, chk_vars, edge_vars >>

NextPolygon ==
    \/ PolyCall
    \/ PolyPlace
    \/ PolyBreak
    \/ PolyReturn
    \/ PolyComplex
    \/ PolyRings
    \/ PolyArrange
    \/ PolyCanvas
    \/ PolyDraw
    \/ PolySave

SpecPolygon == InitPolygon /\ [][NextPolygon]_vars

\* Either program with a calculate_coaster_centers runs.
InitGrid == Init \/ InitPolygon

NextGrid ==
    \/ Next
    \/ NextPolygon

SpecGrid == InitGrid /\ [][NextGrid]_vars

(***************************************************************************)
(* The predicates of the specification, stated without the code's loops.   *)
(***************************************************************************)
Vertices(rect) == { ExteriorCoords(rect)[k] : k \in 1..Len(ExteriorCoords(rect)) }

\* 4.2.1 for one existing piece: an outer vertex and an inner vertex of the
\* candidate lie in that piece's hole, each more than t from the hole's boundary.
SharedGapPredicate(cand, spec, ow, oh, iw, ih, t) ==
    LET hole == Rect(spec[1], spec[2], iw, ih, spec[3])
    IN  /\ \E P \in Vertices(Rect(cand[1], cand[2], ow, oh, cand[3])) :
             RectContains(hole, P) /\ BoundaryDistGT(hole, P, t)
        /\ \E Q \in Vertices(Rect(cand[1], cand[2], iw, ih, cand[3])) :
             RectContains(hole, Q) /\ BoundaryDistGT(hole, Q, t)

\* 4.2.2 for one existing piece: no outer or inner vertex of the candidate lies
\* inside that piece's ring or closer than t to the ring's boundary.
VertexExclusionPredicate(cand, spec, ow, oh, iw, ih, t) ==
    LET ring == [outer |-> Rect(spec[1], spec[2], ow, oh, spec[3]),
                 inner |-> Rect(spec[1], spec[2], iw, ih, spec[3])]
    IN  \A P \in Vertices(Rect(cand[1], cand[2], ow, oh, cand[3]))
                   \cup Vertices(Rect(cand[1], cand[2], iw, ih, cand[3])) :
            /\ ~(RectContains(ring.outer, P) /\ ~RectCovers(ring.inner, P))
            /\ ~BoundaryDistLT(ring.outer, P, t)
            /\ ~BoundaryDistLT(ring.inner, P, t)

VertexExclusionTable ==
    Tabulated([k \in PairKeys |->
        VertexExclusionPredicate(<< 0, 0, k[3] >>, << k[1], k[2], k[4] >>,
                                 outer_w, outer_h, inner_w, inner_h, tol)])

\* The vertex exclusion of one placement of the main program against another.
VertexExclusion(cand, spec) ==
    IF PairKey(cand, spec) \in PairKeys
    THEN VertexExclusionTable[PairKey(cand, spec)]
    ELSE VertexExclusionPredicate(cand, spec, outer_w, outer_h, inner_w, inner_h, tol)

\* The area two placements of the main program share.
SharedArea(p, q) == InterArea(StdRing(p[1], p[2], p[3]), StdRing(q[1], q[2], q[3]))

\* The pieces of cs, among those with an index in idx, that p overlaps above thr.
OverlappedBy(p, cs, idx, thr) == { i \in idx : SharedArea(p, cs[i]) > thr }

NoFallback == \A k \in 1..Len(fallback) : ~fallback[k]

Placed == pc \in {"done", "complex", "individual"}

(***************************************************************************)
(* Claims.                                                                 *)
(***************************************************************************)
\* C1: for num_coasters >= 1 the call returns exactly num_coasters placements; one
\* placement is appended per visited grid slot, and no slot is visited once
\* len(centers) has reached num_coasters.
C1_ExactlyNumCoasters ==
    /\ Len(centers) <= num_coasters
    /\ pc = "while" => Cardinality(visited) = Len(centers) + 1
    /\ pc \in {"for", "done"} => Cardinality(visited) = Len(centers)
    /\ (pc = "done" /\ num_coasters >= 1) => Len(centers) = num_coasters

\* A call for three coasters has returned: the grid is 2 x 2 and its last slot
\* was left by the break.
C1_Witness ==
    /\ pc = "done" /\ num_coasters = 3 /\ Len(centers) = 3
    /\ rows * cols = 4 /\ << 1, 1 >> \notin visited

\* The steps a call can still take: it decreases with every step.
C2_Variant ==
    CASE pc = "call" -> 4 + num_coasters + num_coasters * (max_retries + 2)
      [] pc = "for" -> 3 + (rows - r) + (num_coasters - Len(centers)) * (max_retries + 2)
      [] pc = "while" -> 3 + (rows - r)
                           + (num_coasters - Len(centers) - 1) * (max_retries + 2)
                           + 1 + (max_retries - retries)
      [] pc = "done" -> 2
      [] pc = "complex" -> 1
      [] OTHER -> 0

C2_Budget ==
    /\ retries <= max_retries
    /\ pc = "while" => attempts <= Len(centers) * max_retries + retries
    /\ pc # "while" => attempts <= Len(centers) * max_retries
    /\ pc = "done" => attempts <= num_coasters * max_retries
    /\ C2_Variant >= 0
    /\ pc \in {"individual", "raised"} \/ ENABLED Next

\* C2: placement always terminates: a slot's retry loop makes at most max_retries
\* attempts (retries grows by one per attempt and is reset only on entering a
\* slot), a run makes at most num_coasters * max_retries attempts, every step
\* brings the run nearer to its end and no state short of the end is stuck.
C2_Terminates ==
    /\ [](C2_Budget)
    /\ [][ /\ C2_Variant' < C2_Variant
           /\ retries' # retries => (retries' = retries + 1 \/ (retries' = 0 /\ pc' # pc))
         ]_vars

\* The retry budget of a slot was used up and the call went on to return.
C2_Witness ==
    /\ pc = "done" /\ num_coasters = 3 /\ max_retries = 2
    /\ attempts = 5

\* C3 as claimed: in a run without fallback every piece of the final sequence
\* overlaps at most one other piece, earlier or later, above the threshold.
C3_AtMostOneOther ==
    (Placed /\ NoFallback) =>
        \A j \in 1..Len(centers) :
            Cardinality(OverlappedBy(centers[j], centers, (1..Len(centers)) \ {j},
                                     overlap_threshold)) <= 1

\* C3 as amended: in a run without fallback every piece of the final sequence
\* overlaps at most one earlier-indexed piece above the threshold.
C3_AtMostOneEarlier ==
    (Placed /\ NoFallback) =>
        \A j \in 1..Len(centers) :
            Cardinality(OverlappedBy(centers[j], centers, 1..(j - 1),
                                     overlap_threshold)) <= 1

\* Three validated pieces, the first overlapped by both later ones.
C3_Witness ==
    /\ pc = "done" /\ NoFallback /\ Len(centers) = 3
    /\ OverlappedBy(centers[1], centers, {2, 3}, overlap_threshold) = {2, 3}
    /\ OverlappedBy(centers[3], centers, {1, 2}, overlap_threshold) = {1}

\* C4: at the end of placement every piece accepted through validation keeps the
\* vertex exclusion against every earlier piece.
C4_VertexExclusionKept ==
    Placed =>
        \A j \in 2..Len(centers) :
            ~fallback[j] => \A i \in 1..(j - 1) : VertexExclusion(centers[j], centers[i])

\* Three pieces are placed, the second and the third through validation.
C4_Witness ==
    /\ pc = "done" /\ Len(centers) = 3
    /\ ~fallback[2] /\ ~fallback[3]

\* C5 as claimed: a call with num_coasters = 0 raises nothing and returns the
\* empty sequence.
C5_ZeroReturnsEmpty ==
    (num_coasters = 0 /\ pc # "call") => (pc # "raised" /\ centers = << >>)


\* C6 as claimed: with one piece the region recorded as the piece's overlap is
\* empty, in the complex drawing and in the individual drawing.
C6_SinglePieceNoOverlap ==
    (num_coasters = 1 /\ pc = "individual") =>
        /\ Len(centers) = 1
        /\ RegionIsEmpty(red_regions[1], centers)
        /\ RegionIsEmpty(red_regions_original[1], centers)

SharedGapPredicateTable ==
    Tabulated([k \in PairKeys |->
        SharedGapPredicate(<< 0, 0, k[3] >>, << k[1], k[2], k[4] >>,
                           outer_w, outer_h, inner_w, inner_h, tol)])

\* The three predicates of the specification for the arguments of the call.
SpecCond1 ==
    \E i \in 1..Len(chk_existing) :
        SharedGapPredicateTable[PairKey(chk_candidate, chk_existing[i])]

SpecCond2 ==
    \A i \in 1..Len(chk_existing) : VertexExclusion(chk_candidate, chk_existing[i])

SpecCond3 ==
    Cardinality(OverlappedBy(chk_candidate, chk_existing, 1..Len(chk_existing),
                             chk_threshold)) <= 1

SpecConds == [cond1 |-> SpecCond1, cond2 |-> SpecCond2, cond3 |-> SpecCond3]

\* The predicates named by order, evaluated one after the other, the first
\* false one ending the evaluation.
RECURSIVE ShortCircuit(_, _)
ShortCircuit(order, conds) ==
    IF order = << >> THEN TRUE
    ELSE IF ~conds[Head(order)] THEN FALSE
    ELSE ShortCircuit(Tail(order), conds)

\* The six orders of evaluation.
Orders ==
    { << "cond1", "cond2", "cond3" >>, << "cond1", "cond3", "cond2" >>,
      << "cond2", "cond1", "cond3" >>, << "cond2", "cond3", "cond1" >>,
      << "cond3", "cond1", "cond2" >>, << "cond3", "cond2", "cond1" >> }

\* C7: check_coaster_constraints returns true exactly when the shared gap, the
\* vertex exclusion and the double-overlap cap all hold, and so does a checker
\* that evaluates the three short-circuit in any order.
C7_ThreeConditions ==
    chk_pc = "returned" =>
        \A conds \in { SpecConds } :
            /\ chk_result.cond1 = conds.cond1
            /\ chk_result.cond2 = conds.cond2
            /\ chk_result.cond3 = conds.cond3
            /\ chk_result.ok = (conds.cond1 /\ conds.cond2 /\ conds.cond3)
            /\ \A o \in Orders : ShortCircuit(o, conds) = chk_result.ok

\* A call with two existing pieces returned true.
C7_Witness ==
    /\ chk_pc = "returned" /\ Len(chk_existing) = 2
    /\ chk_result.ok

\* C8: a candidate whose ring shares an area strictly above the threshold with
\* two or more existing rings is rejected whatever cond1 and cond2 are; with at
\* most one such ring cond3 is true, an area equal to the threshold or an empty
\* intersection not counting.
C8_DoubleOverlapCap ==
    chk_pc = "returned" =>
        LET over == { i \in 1..Len(chk_existing) :
                        SharedArea(chk_candidate, chk_existing[i]) > chk_threshold }
        IN  /\ Cardinality(over) >= 2 => (~chk_result.cond3 /\ ~chk_result.ok)
            /\ Cardinality(over) <= 1 => chk_result.cond3

\* cond1 and cond2 hold, two existing rings are overlapped above the threshold
\* and the call returned false.
C8_Witness ==
    /\ chk_pc = "returned" /\ Len(chk_existing) = 2
    /\ chk_result.cond1 /\ chk_result.cond2 /\ ~chk_result.ok
    /\ SharedArea(chk_candidate, chk_existing[1]) > chk_threshold
    /\ SharedArea(chk_candidate, chk_existing[2]) > chk_threshold

\* C9: centers changes only by one placement appended at its end; an attempt,
\* and with it the call of the checker, leaves it as it is.
C9_AppendOnly ==
    [][ /\ \/ centers' = centers
           \/ /\ Len(centers') = Len(centers) + 1
              /\ SubSeq(centers', 1, Len(centers)) = centers
        /\ attempts' # attempts => centers' = centers
      ]_vars

\* Three validated pieces are placed and one attempt was rejected on the way.
C9_Witness ==
    /\ pc = "done" /\ Len(centers) = 3 /\ NoFallback
    /\ attempts = 4

C10_FallbackIsIdeal ==
    /\ num_coasters >= 1 => pc # "raised"
    /\ \A k \in 1..Len(centers) :
         fallback[k] =>
            /\ centers[k][1] = start_x + ((k - 1) % cols) * cell_w + cell_w \div 2
            /\ centers[k][2] = start_y + ((k - 1) \div cols) * cell_h + cell_h \div 2
            /\ centers[k][3] \in {0, 15, 30, 45}

\* C10: when every attempt of a slot is rejected the engine raises nothing and
\* appends the un-jittered centre of the slot's grid cell with an angle among
\* 0, 15, 30, 45; the appending step makes no attempt, so this placement is not
\* put to the checker.
C10_Fallback ==
    /\ [](C10_FallbackIsIdeal)
    /\ [][ (Len(fallback') > Len(fallback) /\ fallback'[Len(fallback')]) =>
               /\ ~valid /\ retries = max_retries
               /\ attempts' = attempts
         ]_vars

\* The third slot used up two attempts and got the fallback, which the checker
\* would have rejected against the two pieces before it.
C10_Witness ==
    /\ pc = "done" /\ Len(centers) = 3 /\ max_retries = 2
    /\ fallback[3]
    /\ ~CandidateValid(centers[3], SubSeq(centers, 1, 2))

\* C11: the first piece is accepted unconditionally: while centers is empty the
\* checker is never called, an attempt made then sets valid, and for
\* max_retries >= 1 the first placement is the first candidate sampled, appended
\* after exactly one attempt.
C11_FirstUnconditional ==
    /\ [](Len(centers) = 0 => checker_calls = 0)
    /\ [][ /\ (attempts' # attempts /\ Len(centers) = 0) =>
                 (valid' /\ checker_calls' = checker_calls)
           /\ (Len(centers) = 0 /\ Len(centers') = 1 /\ max_retries >= 1) =>
                 (attempts = 1 /\ ~fallback'[1] /\ centers'[1] = candidate_spec)
         ]_vars

\* The first of three pieces has just been appended after one attempt and no
\* call of the checker.
C11_Witness ==
    /\ num_coasters = 3 /\ max_retries = 2
    /\ Len(centers) = 1 /\ ~fallback[1]
    /\ attempts = 1 /\ checker_calls = 0

\* C16: cond1 is required.  A call of the checker for a candidate that has no
\* shared gap with any existing piece returns false, also when the candidate
\* overlaps no existing piece, and so does every call with an empty existing-set;
\* in the engine's output a piece after the first that shares no area with any
\* earlier piece was appended by the fallback.
C16_Cond1Required ==
    /\ chk_pc = "returned" =>
          /\ ~SpecCond1 => ~chk_result.ok
          /\ Len(chk_existing) = 0 => ~chk_result.ok
    /\ Placed =>
          \A j \in 2..Len(centers) :
              (\A i \in 1..(j - 1) : SharedArea(centers[j], centers[i]) = 0) => fallback[j]

\* The candidate lies clear of the one existing piece, cond2 and cond3 hold, and
\* the call returned false.
C16_Witness ==
    /\ chk_pc = "returned" /\ Len(chk_existing) = 1
    /\ SharedArea(chk_candidate, chk_existing[1]) = 0
    /\ chk_result.cond2 /\ chk_result.cond3
    /\ ~chk_result.cond1 /\ ~chk_result.ok

\* The edge type that fits e.
Complement(e) == CASE e = "in" -> "out" [] e = "out" -> "in" [] OTHER -> "none"

\* Cell a comes before cell b in the sweep.
SweptBefore(a, b) == a[1] < b[1] \/ (a[1] = b[1] /\ a[2] < b[2])

\* C17: after define_edges adjacent pieces have complementary edges, left against
\* the right of the piece to the left and top against the bottom of the piece
\* above, and no cell is written again once the sweep has passed it.
C17_Complementary ==
    /\ [](edge_pc = "returned" =>
            \A cell \in DOMAIN edges_map :
                /\ cell[2] < edge_cols - 1 =>
                      edges_map[<< cell[1], cell[2] + 1 >>].left
                          = Complement(edges_map[cell].right)
                /\ cell[1] < edge_rows - 1 =>
                      edges_map[<< cell[1] + 1, cell[2] >>].top
                          = Complement(edges_map[cell].bottom))
    /\ [][edge_pc = "loop" =>
            \A cell \in DOMAIN edges_map :
                SweptBefore(cell, << edge_r, edge_c >>) => edges_map'[cell] = edges_map[cell]
         ]_vars

\* A 2 x 3 grid with random edges of both types has been completed.
C17_Witness ==
    /\ edge_pc = "returned" /\ edge_rows = 2 /\ edge_cols = 3 /\ randomize
    /\ edges_map[<< 0, 0 >>].right = "in" /\ edges_map[<< 0, 1 >>].left = "out"
    /\ edges_map[<< 0, 1 >>].bottom = "out" /\ edges_map[<< 1, 1 >>].top = "in"
    /\ edges_map[<< 1, 1 >>].right = "in"

\* C18: after define_edges an edge is "none" exactly when it lies on the outer
\* boundary of the grid, every shared edge is "in" or "out", and without
\* randomize every shared right or bottom edge is "out" and every shared left or
\* top edge is "in".
C18_NoneOnBoundary ==
    edge_pc = "returned" =>
        \A cell \in DOMAIN edges_map :
            /\ \A side \in {"top", "right", "bottom", "left"} :
                   edges_map[cell][side] \in {"in", "out", "none"}
            /\ edges_map[cell].top = "none" <=> cell[1] = 0
            /\ edges_map[cell].left = "none" <=> cell[2] = 0
            /\ edges_map[cell].right = "none" <=> cell[2] = edge_cols - 1
            /\ edges_map[cell].bottom = "none" <=> cell[1] = edge_rows - 1
            /\ ~randomize =>
                  /\ cell[2] < edge_cols - 1 => edges_map[cell].right = "out"
                  /\ cell[1] < edge_rows - 1 => edges_map[cell].bottom = "out"
                  /\ cell[2] > 0 => edges_map[cell].left = "in"
                  /\ cell[1] > 0 => edges_map[cell].top = "in"

\* A 2 x 3 grid has been completed without randomize.
C18_Witness ==
    /\ edge_pc = "returned" /\ edge_rows = 2 /\ edge_cols = 3 /\ ~randomize
    /\ edges_map[<< 0, 2 >>].right = "none" /\ edges_map[<< 0, 1 >>].right = "out"
    /\ edges_map[<< 1, 1 >>].top = "in" /\ edges_map[<< 1, 1 >>].bottom = "none"

\* The rings of pieces i and j (counted from 0) have a non-empty intersection.
RingsMeet(i, j) == poly_rings[i + 1].pts \cap poly_rings[j + 1].pts # {}

\* The entries of the overlap list of piece i for piece j.
EntriesFor(i, j) ==
    { k \in 1..Len(overlaps_list[i + 1]) : overlaps_list[i + 1][k].with = j }

\* C12: in generate_individual_svg the overlap list of piece i holds, for every
\* other piece j whose ring meets the ring of i, exactly one entry, blue when
\* i > j and red otherwise, and no entry for any other j; so a meeting pair is
\* blue once, in the list of the higher index, and red once, in the list of the
\* lower.
C12_OneEntryPerPair ==
    /\ \A i \in 0..(Len(overlaps_list) - 1) :
         /\ \A k \in 1..Len(overlaps_list[i + 1]) :
                overlaps_list[i + 1][k].with \in (0..(Len(poly_rings) - 1)) \ { i }
         /\ \A j \in (0..(Len(poly_rings) - 1)) \ { i } :
              IF RingsMeet(i, j)
              THEN /\ Cardinality(EntriesFor(i, j)) = 1
                   /\ \A k \in EntriesFor(i, j) :
                        overlaps_list[i + 1][k].color = (IF i > j THEN "blue" ELSE "red")
              ELSE EntriesFor(i, j) = {}
    /\ poly_pc \in { "draw", "saved" } =>
         \A i \in 0..(Len(poly_rings) - 1), j \in 0..(Len(poly_rings) - 1) :
            (i < j /\ RingsMeet(i, j)) =>
               /\ Cardinality({ k \in EntriesFor(j, i) : overlaps_list[j + 1][k].color = "blue" }) = 1
               /\ Cardinality({ k \in EntriesFor(i, j) : overlaps_list[i + 1][k].color = "red" }) = 1
               /\ \A k \in EntriesFor(i, j) : overlaps_list[i + 1][k].color # "blue"
               /\ \A k \in EntriesFor(j, i) : overlaps_list[j + 1][k].color # "red"

\* Four pieces have been arranged, of which some pairs meet and one does not.
C12_Witness ==
    /\ poly_pc = "saved" /\ Len(overlaps_list) = 4
    /\ RingsMeet(0, 1) /\ RingsMeet(1, 3) /\ ~RingsMeet(0, 3)
    /\ Len(overlaps_list[1]) = 2 /\ Len(overlaps_list[2]) = 3

\* The elements of the drawing made for piece i.
ElementsOf(i) == { k \in 1..Len(dwg) : dwg[k].piece = i }

\* An element lies in the second row: below the first row, max_h high under the margin.
InSecondRow(e) == \A P \in e.d : P[2] > margin * PolyUnit + max_h

InFirstRow(e) == \A P \in e.d : P[2] <= margin * PolyUnit + max_h

\* C13: in generate_individual_svg a piece has a copy in the second row exactly
\* when its ring meets the ring of an earlier piece; the second row holds that
\* copy with one blue region for each earlier piece met and nothing red, the
\* first row the piece with one red region for each later piece met and
\* nothing blue.
C13_MirroredIffEarlierOverlap ==
    poly_pc = "saved" =>
        \A i \in 0..(Len(arranged) - 1) :
            /\ Cardinality({ k \in ElementsOf(i) : dwg[k].stroke = "black" /\ InFirstRow(dwg[k]) }) = 1
            /\ Cardinality({ k \in ElementsOf(i) : dwg[k].stroke = "black" /\ InSecondRow(dwg[k]) })
                  = (IF \E j \in 0..(i - 1) : RingsMeet(i, j) THEN 1 ELSE 0)
            /\ \A k \in ElementsOf(i) :
                  /\ dwg[k].stroke \in { "black", "red", "blue" }
                  /\ dwg[k].stroke = "red" => InFirstRow(dwg[k])
                  /\ dwg[k].stroke = "blue" => InSecondRow(dwg[k])
                  /\ InFirstRow(dwg[k]) \/ InSecondRow(dwg[k])
            /\ Cardinality({ k \in ElementsOf(i) : dwg[k].stroke = "blue" })
                  = Cardinality({ j \in 0..(i - 1) : RingsMeet(i, j) })
            /\ Cardinality({ k \in ElementsOf(i) : dwg[k].stroke = "red" })
                  = Cardinality({ j \in (i + 1)..(Len(arranged) - 1) : RingsMeet(i, j) })

\* Four pieces have been drawn; the last meets an earlier one and has its copy in
\* the second row, the first has none.
C13_Witness ==
    /\ poly_pc = "saved" /\ Len(arranged) = 4
    /\ RingsMeet(3, 1) /\ ~RingsMeet(3, 0)
    /\ \E k \in ElementsOf(3) : dwg[k].stroke = "black" /\ InSecondRow(dwg[k])
    /\ \E k \in ElementsOf(3) : dwg[k].stroke = "blue"
    /\ \A k \in ElementsOf(0) : InFirstRow(dwg[k])

\* The image of a shape under (x, y) |-> (2 axis_x - x, y + row2_offset), axis_x
\* the horizontal midpoint of the bounding box of ring.
LeftRightImage(shape, ring) ==
    { << 2 * ((ring.box[1] + ring.box[3]) \div 2) - P[1], P[2] + row2_offset >> : P \in shape.pts }

\* C14: the copy generate_individual_svg draws in the second row is the left-right
\* mirror image: the ring and each of its blue regions are drawn at their images
\* under (x, y) |-> (2 axis_x - x, y + row2_offset).
C14_LeftRightMirror ==
    poly_pc = "saved" =>
        \A i \in 0..(Len(arranged) - 1) :
            AnyBlue(overlaps_list[i + 1]) =>
                /\ { dwg[k].d : k \in { m \in ElementsOf(i) :
                                          dwg[m].stroke = "black" /\ dwg[m].row = 2 } }
                      = { LeftRightImage(arranged[i + 1], arranged[i + 1]) }
                /\ { dwg[k].d : k \in { m \in ElementsOf(i) : dwg[m].stroke = "blue" } }
                      = { LeftRightImage(overlaps_list[i + 1][k].region, arranged[i + 1]) :
                            k \in { m \in 1..Len(overlaps_list[i + 1]) :
                                       overlaps_list[i + 1][m].color = "blue" } }

\* C15: shape parameters that are malformed (fewer than three sides) are rejected
\* before the first placement: no placement is ever produced for them.
C15_MalformedRejected ==
    PolygonRaises(n_sides) => /\ poly_centers = << >>
                              /\ poly_pc \in { "idle", "main", "raised" }

GridOf(n, ncols, nrows) ==
    /\ ncols * ncols >= n /\ (ncols - 1) * (ncols - 1) < n
    /\ nrows * ncols >= n /\ (nrows - 1) * ncols < n

\* C20: for n >= 1 cols is ceil(sqrt(n)) and rows is ceil(n / cols), so that
\* (rows - 1) * cols < n <= rows * cols, and the k-th placement (from 0) is the
\* one of grid cell (k div cols, k mod cols), in both programs.
C20_RowMajorGrid ==
    /\ (pc \in { "for", "while", "done", "complex", "individual" } /\ num_coasters >= 1) =>
          /\ GridOf(num_coasters, cols, rows)
          /\ \A k \in 0..(Len(centers) - 1) :
                /\ AbsV(centers[k + 1][1] - IdealCx(k % cols)) <= max_offset_x
                /\ AbsV(centers[k + 1][2] - IdealCy(k \div cols)) <= max_offset_y
                /\ k \div cols < rows
          /\ pc = "while" => << r, c >> = << Len(centers) \div cols, Len(centers) % cols >>
    /\ (poly_pc \notin { "idle", "main", "raised" } /\ poly_num >= 1) =>
          /\ GridOf(poly_num, poly_cols, poly_rows)
          /\ \A k \in 0..(Len(poly_centers) - 1) :
                /\ poly_cells[k + 1] = << k \div poly_cols, k % poly_cols >>
                /\ poly_centers[k + 1][1] = PolyCx(n_sides, k \div poly_cols, k % poly_cols)
                /\ poly_centers[k + 1][2] = PolyCy(n_sides, k \div poly_cols)
                /\ k \div poly_cols < poly_rows

\* Three pieces have been placed on a grid of two columns and two rows, the
\* last row holding one piece.
C20_Witness ==
    /\ pc = "done" /\ num_coasters = 3 /\ cols = 2 /\ rows = 2 /\ Len(centers) = 3
    /\ visited = { << 0, 0 >>, << 0, 1 >>, << 1, 0 >> }

\* C21: within a slot the first admissible candidate is accepted.  A candidate is
\* sampled only while none was found valid, against an existing-set that does not
\* change during the slot; a candidate found valid passed the check (or is the
\* first piece); once one is valid the next step appends exactly that candidate,
\* and a placement that is not a fallback is the valid candidate of the last
\* attempt.
C21_FirstAdmissible ==
    [][ /\ attempts' # attempts =>
              /\ pc = "while" /\ ~valid
              /\ centers' = centers
              /\ valid' => \/ Len(centers) = 0
                           \/ check_coaster_constraints(candidate_spec', centers, outer_w, outer_h,
                                                        inner_w, inner_h, tol, overlap_threshold).ok
        /\ (pc = "while" /\ valid) =>
              /\ attempts' = attempts
              /\ centers' = Append(centers, candidate_spec)
              /\ fallback' = Append(fallback, FALSE)
        /\ (Len(centers') = Len(centers) + 1 /\ ~fallback'[Len(fallback')]) =>
              /\ valid /\ retries >= 1
              /\ centers'[Len(centers')] = candidate_spec
      ]_vars

\* The second piece was accepted at the second attempt of its slot, the first
\* attempt having been rejected.
C21_Witness ==
    /\ pc = "for" /\ valid /\ retries = 2 /\ attempts = 3
    /\ Len(centers) = 2 /\ ~fallback[2] /\ centers[2] = candidate_spec

\* The existing rings whose intersection with the candidate has an area above 1.
OverlappingExisting(cand, existing) ==
    { k \in 1..Len(existing) : SharedArea(cand, existing[k]) > 1 }

\* C22: the additional overlap count of the rectangle calculate_coaster_centers
\* never rejects a candidate.  Whenever check_coaster_constraints, called with the
\* default overlap_threshold, returns true, fewer than two existing rings intersect
\* the candidate with area above 1; and in the engine every attempt that is not
\* for the first piece leaves valid equal to the checker's result.
C22_ExtraCountRedundant ==
    /\ []((chk_pc = "returned" /\ chk_threshold = overlap_threshold /\ chk_result.ok) =>
             Cardinality(OverlappingExisting(chk_candidate, chk_existing)) < 2)
    /\ [][(attempts' # attempts /\ Len(centers) # 0) =>
             valid' = check_coaster_constraints(candidate_spec', centers, outer_w, outer_h,
                                                inner_w, inner_h, tol, overlap_threshold).ok
         ]_vars

\* The checker has accepted, with the default threshold, a candidate against two
\* existing pieces of which it overlaps one.
C22_Witness ==
    /\ chk_pc = "returned" /\ chk_threshold = overlap_threshold /\ chk_result.ok
    /\ Len(chk_existing) = 2
    /\ Cardinality(OverlappingExisting(chk_candidate, chk_existing)) = 1

\* C23: with max_retries = 0 no candidate is ever sampled or checked; every
\* placement, the first included, is the fallback at the centre of its cell,
\* cell k div cols, k mod cols for placement k, and the call returns num_coasters
\* placements.
C23_ZeroRetriesAllFallback ==
    max_retries = 0 =>
        /\ attempts = 0 /\ checker_calls = 0
        /\ candidate_spec = None /\ ~valid
        /\ \A k \in 0..(Len(centers) - 1) :
              /\ fallback[k + 1]
              /\ centers[k + 1][1] = margin_between + (k % cols) * cell_w + cell_w \div 2
              /\ centers[k + 1][2] = margin_between + (k \div cols) * cell_h + cell_h \div 2
              /\ centers[k + 1][3] \in { 0, 15, 30, 45 }
        /\ (pc = "done" /\ num_coasters >= 1) => Len(centers) = num_coasters

\* Three fallback placements have been returned without any retry.
C23_Witness ==
    /\ pc = "done" /\ max_retries = 0 /\ num_coasters = 3
    /\ Len(centers) = 3 /\ fallback = << TRUE, TRUE, TRUE >>
    /\ centers[1][3] = 15

\* The earlier pieces whose rings meet the ring of piece k (counted from 0): with
\* two or more of them cond3 of check_coaster_constraints is false for piece k.
EarlierMet(k) == { j \in 0..(k - 1) : RingsMeet(k, j) }

\* C24: the n-gon calculate_coaster_centers places without checking or retrying:
\* every pass of its loop appends one placement, and with rotation_flag not "y"
\* the k-th placement is (margin + c * step_x + (step_x / 2 if r is odd else 0),
\* margin + r * step_y, 0) for r = k div cols and c = k mod cols, a function of
\* the arguments alone, whatever rings the earlier placements have.
C24_DeterministicLayout ==
    /\ poly_pc = "grid" => Len(poly_centers) = poly_idx
    /\ poly_pc \in { "laid", "complex", "arrange", "draw", "saved" } =>
          Len(poly_centers) = poly_num
    /\ rotation_flag # "y" =>
          \A k \in 0..(Len(poly_centers) - 1) :
              poly_centers[k + 1] =
                 << margin * PolyUnit + (k % poly_cols) * Step(n_sides, LayoutW)
                       + (IF (k \div poly_cols) % 2 = 1 THEN Step(n_sides, LayoutW) \div 2 ELSE 0),
                    margin * PolyUnit + (k \div poly_cols) * Step(n_sides, LayoutH),
                    0 >>

\* Four placements were returned without rotation and drawn, the last one with a
\* ring that meets the rings of two earlier pieces.
C24_Witness ==
    /\ poly_pc = "saved" /\ rotation_flag = "n" /\ poly_num = 4 /\ Len(poly_centers) = 4
    /\ Cardinality(EarlierMet(3)) >= 2

\* C25: the step of the n-gon grid is 1.5 * extent * (1 - overlap_ratio) for four
\* sides and 1.8 * extent * (1 - overlap_ratio) for every other side count, three
\* included; 1.7 is never the multiplier.
C25_StepMultiplier ==
    \A k \in 0..(Len(poly_centers) - 1) :
        \A mult \in { IF n_sides = 4 THEN 15 ELSE 18 } :
            /\ poly_centers[k + 1][1] - (IF (k \div poly_cols) % 2 = 1
                                         THEN (mult * LayoutW * (100 - overlap_ratio)) \div 2000
                                         ELSE 0)
                  = margin * PolyUnit
                       + (k % poly_cols) * ((mult * LayoutW * (100 - overlap_ratio)) \div 1000)
            /\ poly_centers[k + 1][2]
                  = margin * PolyUnit
                       + (k \div poly_cols) * ((mult * LayoutH * (100 - overlap_ratio)) \div 1000)

\* Triangles have been laid out on two rows, 163.296 pixels apart in a row
\* and 122.472 pixels between rows.
C25_Witness ==
    /\ poly_pc = "laid" /\ n_sides = 3 /\ Len(poly_centers) = 3
    /\ poly_centers[2][1] - poly_centers[1][1] = 163296
    /\ poly_centers[3][2] - poly_centers[1][2] = 122472

====
